---- MODULE Spec2Model ----
(***************************************************************************)
(* Model of src/src/drain_lambda/drain.py: the lambda that drains an ECS   *)
(* container instance before its EC2 instance is terminated.               *)
(*                                                                         *)
(* State: the ECS side (container instances, their status, running tasks), *)
(* the SNS topic (events in flight), the invocations of handler() with     *)
(* their local variables and position, and the calls made so far.          *)
(* One action per API call of the handler; the local computation between   *)
(* two calls belongs to the action of the call that precedes it.           *)
(***************************************************************************)
EXTENDS Integers, Sequences, FiniteSets, TLC

\* drain.py:7
MAXIMUM_ITERATIONS == 50

\* Bounds of the model.
MaxInvocations == 2
MaxDeliveries == 3
MaxPasses == 4

\* Python's None for the ARN-valued locals (ARNs are sequences of segments).
None == <<>>

(***************************************************************************)
(* Strings the code takes apart are sequences of their parts: an ARN is    *)
(* the sequence of its '/'-separated segments, a LifecycleTransition the   *)
(* sequence of its tokens.                                                 *)
(***************************************************************************)
TERMINATING == <<"autoscaling:", "EC2_INSTANCE_", "TERMINATING">>
LAUNCHING == <<"autoscaling:", "EC2_INSTANCE_", "LAUNCHING">>

\* str.find(sub): lowest 0-based index where sub occurs in s, -1 if none
Find(s, sub) ==
    LET hits == {i \in 1..(Len(s) - Len(sub) + 1) :
                    \A j \in 1..Len(sub) : s[i + j - 1] = sub[j]}
    IN IF hits = {} THEN -1
       ELSE (CHOOSE i \in hits : \A k \in hits : i <= k) - 1

\* Mutant: split('/')[1], right only for the short ARN format.
ShortArn_SecondSegment(arn) == arn[2]

\* container_instance_arn.split('/')[-1]
ShortArn(arn) == arn[Len(arn)]

\* The orchestrator's clusters, in list_clusters order; Z has no instances.
ClusterX == <<"arn:aws:ecs:cluster", "X">>
ClusterY == <<"arn:aws:ecs:cluster", "Y">>
ClusterZ == <<"arn:aws:ecs:cluster", "Z">>
ClusterArns == <<ClusterX, ClusterZ, ClusterY>>

\* Container instances: one with the short ARN format, one with the long.
ArnA == <<"arn:aws:ecs:container-instance", "0c4a">>
ArnB == <<"arn:aws:ecs:container-instance", "Y", "7d1b">>
ContainerInstanceArns == {ArnA, ArnB}

\* list_container_instances(cluster)['containerInstanceArns']
ListContainerInstances(cluster_arn) ==
    IF cluster_arn = ClusterX THEN <<ArnA>>
    ELSE IF cluster_arn = ClusterY THEN <<ArnB>>
    ELSE <<>>

EC2Ids == {"i-1", "i-2"}
Topics == {"topic-drain", "topic-other"}

\* Tasks and the startedBy that describe_tasks reports for each.
Tasks == {"t1", "t2", "t3"}
TaskOrder == <<"t1", "t2", "t3">>
StartedBy(t) ==
    IF t = "t1" THEN "0c4a"
    ELSE IF t = "t2" THEN "ecs-svc/123"
    ELSE "7d1b"

(***************************************************************************)
(* json.dumps / json.loads: the wire form of a dict is its set of          *)
(* key/value pairs.                                                        *)
(***************************************************************************)
json_dumps(m) == {<<k, m[k]>> : k \in DOMAIN m}
json_loads(j) ==
    [k \in {p[1] : p \in j} |-> (CHOOSE p \in j : p[1] = k)[2]]

\* dict.update(u): keys of u override or extend m
Update(m, u) ==
    [k \in DOMAIN m \cup DOMAIN u |-> IF k \in DOMAIN u THEN u[k] ELSE m[k]]

\* The notification autoscaling sends for a lifecycle hook of `ec2`.
LifecycleMessage(transition, ec2) ==
    [LifecycleTransition |-> transition,
     AutoScalingGroupName |-> "asg-1",
     EC2InstanceId |-> ec2,
     LifecycleHookName |-> "hook-1"]

\* A notification that is no lifecycle transition at all.
TestNotification ==
    [Event |-> "autoscaling:TEST_NOTIFICATION",
     AutoScalingGroupName |-> "asg-1"]

\* event['Records'][0]['Sns']
SnsEvent(topic, message, subject) ==
    [TopicArn |-> topic, Message |-> json_dumps(message), Subject |-> subject]

VARIABLES
    ec2InstanceId,   \* container instance ARN -> the EC2 id it reports
    status,          \* container instance ARN -> "ACTIVE" | "DRAINING"
    taskOn,          \* task -> container instance it runs on (desiredStatus RUNNING), or None
    inflight,        \* SNS events published and not yet delivered
    inv,             \* slot -> the invocation of handler() in that slot
    published,       \* every sns publish so far: [trigger, event]
    completed,       \* every complete_lifecycle_action call so far
    stopCalls,       \* every stop_task call so far: [task, cluster, container instance]
    deliveries       \* how many times SNS has invoked handler() so far

vars == <<ec2InstanceId, status, taskOn, inflight, inv, published, completed, stopCalls,
          deliveries>>

Slots == 1..MaxInvocations

\* Mutant: list_tasks without the containerInstance filter.
RunningOn_AnyInstance(ci) == {t \in Tasks : taskOn[t] # None}

\* The tasks list_tasks(desiredStatus='RUNNING') reports for an instance.
RunningOn(ci) == {t \in Tasks : taskOn[t] = ci}

\* A set of tasks as the list the API returns.
AsList(S) == SelectSeq(TaskOrder, LAMBDA t : t \in S)

IdleInvocation ==
    [pc |-> "idle", event |-> <<>>, message |-> <<>>, topic_arn |-> "",
     cluster_arn |-> None, container_instance_arn |-> None, iteration |-> 0,
     task_arns |-> <<>>, described |-> <<>>, log |-> <<>>, outcome |-> ""]

\* describe_container_instances(cluster, arns)['containerInstances']
DescribeContainerInstances(arns) ==
    [j \in 1..Len(arns) |->
        [containerInstanceArn |-> arns[j],
         ec2InstanceId |-> ec2InstanceId[arns[j]],
         status |-> status[arns[j]]]]

\* The calls get_ecs_ids makes for one cluster (drain.py:106-113).
ClusterCalls(cluster_arn) ==
    IF ListContainerInstances(cluster_arn) # <<>>
    THEN << <<"list_container_instances", cluster_arn>>,
            <<"describe_container_instances", cluster_arn>> >>
    ELSE << <<"list_container_instances", cluster_arn>> >>

\* Mutant: takes the first described instance whatever EC2 id it reports.
FirstMatch_AnyInstance(instances, ec2_instance_id) ==
    IF Len(instances) = 0 THEN 0 ELSE 1

\* The first described instance that reports the EC2 id, 0 if none (drain.py:114-115).
FirstMatch(instances, ec2_instance_id) ==
    LET hits == {j \in 1..Len(instances) :
                    instances[j].ec2InstanceId = ec2_instance_id}
    IN IF hits = {} THEN 0 ELSE CHOOSE j \in hits : \A k \in hits : j <= k

(***************************************************************************)
(* get_ecs_ids from cluster number i on: the clusters in list_clusters     *)
(* order, returning at the first match.  The result carries the calls made *)
(* and whether the matched instance still has to be set to DRAINING.       *)
(***************************************************************************)
RECURSIVE SearchClusters(_, _, _)
SearchClusters(i, ec2_instance_id, calls) ==
    IF i > Len(ClusterArns)
    THEN [cluster_arn |-> None, container_instance_arn |-> None,
          drain |-> FALSE, calls |-> calls]
    ELSE LET cluster_arn == ClusterArns[i]
             instances == DescribeContainerInstances(ListContainerInstances(cluster_arn))
             j == FirstMatch(instances, ec2_instance_id)
             made == calls \o ClusterCalls(cluster_arn)
         IN IF j # 0
            THEN [cluster_arn |-> cluster_arn,
                  container_instance_arn |-> instances[j].containerInstanceArn,
                  drain |-> instances[j].status # "DRAINING",
                  calls |-> made]
            ELSE SearchClusters(i + 1, ec2_instance_id, made)

\* Mutant: the search goes through every cluster and keeps the last match.
RECURSIVE SearchEveryCluster(_, _, _)
SearchEveryCluster(i, ec2_instance_id, best) ==
    IF i > Len(ClusterArns)
    THEN best
    ELSE LET cluster_arn == ClusterArns[i]
             instances == DescribeContainerInstances(ListContainerInstances(cluster_arn))
             j == FirstMatch(instances, ec2_instance_id)
             made == best.calls \o ClusterCalls(cluster_arn)
         IN SearchEveryCluster(i + 1, ec2_instance_id,
                IF j # 0
                THEN [cluster_arn |-> cluster_arn,
                      container_instance_arn |-> instances[j].containerInstanceArn,
                      drain |-> instances[j].status # "DRAINING",
                      calls |-> made]
                ELSE [best EXCEPT !.calls = made])

get_ecs_ids_LastMatch(ec2_instance_id) ==
    SearchEveryCluster(1, ec2_instance_id,
                       [cluster_arn |-> None, container_instance_arn |-> None,
                        drain |-> FALSE, calls |-> << <<"list_clusters">> >>])

get_ecs_ids(ec2_instance_id) ==
    SearchClusters(1, ec2_instance_id, << <<"list_clusters">> >>)

\* Mutant: looks for the autoscaling prefix only.
IsTermination_PrefixOnly(message) ==
    Find(message["LifecycleTransition"], <<"autoscaling:">>) > -1

\* The lifecycle-transition check of handler (drain.py:203-208).
IsLifecycleTransition(message) == "LifecycleTransition" \in DOMAIN message
IsTermination(message) == Find(message["LifecycleTransition"], TERMINATING) > -1

Returned(r, outcome) == [r EXCEPT !.pc = "returned", !.outcome = outcome]

(***************************************************************************)
(* handler, from its start to its first API call (drain.py:199-231): SNS   *)
(* delivers event e to a free slot.                                        *)
(***************************************************************************)
Begin(e) ==
    LET message == json_loads(e.Message)
        r == [IdleInvocation EXCEPT !.event = e, !.message = message]
    IN IF ~IsLifecycleTransition(message)
       THEN Returned(r, "not_lifecycle")
       ELSE IF ~IsTermination(message)
       THEN Returned(r, "not_termination")
       ELSE IF "ContainerInstanceArn" \in DOMAIN message
       THEN [r EXCEPT !.topic_arn = e.TopicArn,
                      !.cluster_arn = message["ClusterId"],
                      !.container_instance_arn = message["ContainerInstanceArn"],
                      !.iteration = message["Iteration"],
                      !.pc = "list_running_tasks"]
       ELSE [r EXCEPT !.topic_arn = e.TopicArn, !.pc = "get_ecs_ids"]

FreeSlot(s) ==
    /\ inv[s].pc \in {"idle", "returned"}
    /\ \A k \in Slots : k < s => inv[k].pc \notin {"idle", "returned"}

\* SNS delivers e once: the event leaves the topic as handler starts on it.
HandlerStart(s, e) ==
    /\ FreeSlot(s)
    /\ e \in inflight
    /\ inflight' = inflight \ {e}
    /\ inv' = [inv EXCEPT ![s] = Begin(e)]
    /\ deliveries' = deliveries + 1
    /\ UNCHANGED <<ec2InstanceId, status, taskOn, published, completed, stopCalls>>

(***************************************************************************)
(* SNS delivers e at least once: handler starts on it and the event may    *)
(* stay on the topic to be delivered again, also while an earlier          *)
(* invocation for it is still running.  MaxDeliveries bounds the run.      *)
(***************************************************************************)
HandlerStartAtLeastOnce(s, e) ==
    /\ deliveries < MaxDeliveries
    /\ FreeSlot(s)
    /\ e \in inflight
    /\ \E again \in BOOLEAN : inflight' = IF again THEN inflight ELSE inflight \ {e}
    /\ inv' = [inv EXCEPT ![s] = Begin(e)]
    /\ deliveries' = deliveries + 1
    /\ UNCHANGED <<ec2InstanceId, status, taskOn, published, completed, stopCalls>>

\* Mutant: get_ecs_ids returns the match without calling drain_instance.
AfterGetEcsIds_NoDrain(r, found) ==
    LET r1 == [r EXCEPT !.log = r.log \o found.calls,
                        !.cluster_arn = found.cluster_arn,
                        !.container_instance_arn = found.container_instance_arn]
    IN IF found.container_instance_arn = None
       THEN [r1 EXCEPT !.pc = "returned", !.outcome = "not_found"]
       ELSE [r1 EXCEPT !.iteration = 0, !.pc = "list_running_tasks"]

\* Mutant: the status test is inverted, drain_instance runs on DRAINING instances only.
AfterGetEcsIds_DrainInverted(r, found) ==
    LET r1 == [r EXCEPT !.log = r.log \o found.calls,
                        !.cluster_arn = found.cluster_arn,
                        !.container_instance_arn = found.container_instance_arn]
    IN IF found.container_instance_arn = None
       THEN [r1 EXCEPT !.pc = "returned", !.outcome = "not_found"]
       ELSE [r1 EXCEPT !.iteration = 0,
                       !.pc = IF found.drain THEN "list_running_tasks"
                              ELSE "drain_instance"]

\* The invocation after get_ecs_ids returned `found` (drain.py:225-231).
AfterGetEcsIds(r, found) ==
    LET r1 == [r EXCEPT !.log = r.log \o found.calls,
                        !.cluster_arn = found.cluster_arn,
                        !.container_instance_arn = found.container_instance_arn]
    IN IF found.container_instance_arn = None
       THEN Returned(r1, "not_found")
       ELSE [r1 EXCEPT !.iteration = 0,
                       !.pc = IF found.drain THEN "drain_instance"
                              ELSE "list_running_tasks"]

\* The cluster search of get_ecs_ids (drain.py:99-119, 123-124).
GetEcsIds(s) ==
    /\ inv[s].pc = "get_ecs_ids"
    /\ inv' = [inv EXCEPT ![s] =
                 AfterGetEcsIds(inv[s], get_ecs_ids(inv[s].message["EC2InstanceId"]))]
    /\ UNCHANGED <<ec2InstanceId, status, taskOn, inflight, published, completed, stopCalls, deliveries>>

\* Mutant: drain_instance writes ACTIVE.
DrainedStatus_Active == "ACTIVE"

\* The status drain_instance writes (drain.py:142-143).
DrainedStatus == "DRAINING"

\* drain_instance, called by get_ecs_ids before it returns (drain.py:119-121).
DrainInstance(s) ==
    /\ inv[s].pc = "drain_instance"
    /\ status' = [status EXCEPT ![inv[s].container_instance_arn] = DrainedStatus]
    /\ inv' = [inv EXCEPT ![s].pc = "list_running_tasks",
                          ![s].log = @ \o << <<"update_container_instances_state",
                                               inv[s].container_instance_arn,
                                               DrainedStatus>> >>]
    /\ UNCHANGED <<ec2InstanceId, taskOn, inflight, published, completed, stopCalls, deliveries>>

\* Mutant: the branch tests len(task_arns) > 1.
AfterListing_OffByOne(r, task_arns) ==
    [r EXCEPT !.task_arns = task_arns,
              !.log = @ \o << <<"list_tasks", r.container_instance_arn>> >>,
              !.pc = IF Len(task_arns) > 1 THEN "describe_tasks"
                     ELSE "continue_lifecycle"]

\* Mutant: on an empty list handler returns without calling continue_lifecycle.
AfterListing_NoContinue(r, task_arns) ==
    LET r1 == [r EXCEPT !.task_arns = task_arns,
                        !.log = @ \o << <<"list_tasks", r.container_instance_arn>> >>]
    IN IF Len(task_arns) > 0
       THEN [r1 EXCEPT !.pc = "describe_tasks"]
       ELSE [r1 EXCEPT !.pc = "returned", !.outcome = "continued"]

\* The branch on the task list (drain.py:234, 254).
AfterListing(r, task_arns) ==
    [r EXCEPT !.task_arns = task_arns,
              !.log = @ \o << <<"list_tasks", r.container_instance_arn>> >>,
              !.pc = IF Len(task_arns) > 0 THEN "describe_tasks"
                     ELSE "continue_lifecycle"]

\* list_running_tasks (drain.py:233, 63-83).
ListRunningTasks(s) ==
    /\ inv[s].pc = "list_running_tasks"
    /\ inv' = [inv EXCEPT ![s] =
                 AfterListing(inv[s], AsList(RunningOn(inv[s].container_instance_arn)))]
    /\ UNCHANGED <<ec2InstanceId, status, taskOn, inflight, published, completed, stopCalls, deliveries>>

\* describe_tasks(cluster, tasks)['tasks'] (drain.py:44-47)
DescribeTasks(task_arns) ==
    [j \in 1..Len(task_arns) |->
        [taskArn |-> task_arns[j], startedBy |-> StartedBy(task_arns[j])]]

\* The test that selects the tasks to stop (drain.py:40, 50-51).
IsDaemonTask(task, container_instance_arn) ==
    task.startedBy = ShortArn(container_instance_arn)

\* The described tasks stop_daemon_tasks stops, in order (drain.py:49-51).
DaemonTasks(tasks, container_instance_arn) ==
    SelectSeq(tasks, LAMBDA task : IsDaemonTask(task, container_instance_arn))

\* Mutant: the iteration restarts at 1 instead of counting on.
NextIteration_Reset(iteration) == 1

\* iteration += 1 (drain.py:236)
NextIteration(iteration) == iteration + 1

\* Mutant: the breaker never opens.
CircuitOpen_Never(iteration) == FALSE

\* Mutant: the breaker opens one iteration late.
CircuitOpen_OffByOne(iteration) == iteration > MAXIMUM_ITERATIONS + 1

\* The circuit breaker's test (drain.py:238).
CircuitOpen(iteration) == iteration > MAXIMUM_ITERATIONS

\* Mutant: a pass that stopped every task it listed goes on to continue_lifecycle.
AfterStopping_ContinueWhenAllStopped(r) ==
    IF r.described # <<>>
    THEN r
    ELSE IF \A i \in 1..Len(r.task_arns) :
               \E k \in 1..Len(r.log) : r.log[k] = <<"stop_task", r.task_arns[i]>>
    THEN [r EXCEPT !.pc = "continue_lifecycle"]
    ELSE LET iteration == NextIteration(r.iteration)
         IN IF CircuitOpen(iteration)
            THEN Returned([r EXCEPT !.iteration = iteration], "aborted")
            ELSE [r EXCEPT !.iteration = iteration, !.pc = "publish_to_sns"]

(***************************************************************************)
(* The invocation once the loop of stop_daemon_tasks has nothing left to   *)
(* stop: the iteration is incremented and the circuit breaker either ends  *)
(* the invocation or lets it go on to publish (drain.py:236-243).          *)
(***************************************************************************)
AfterStopping(r) ==
    IF r.described # <<>>
    THEN r
    ELSE LET iteration == NextIteration(r.iteration)
         IN IF CircuitOpen(iteration)
            THEN Returned([r EXCEPT !.iteration = iteration], "aborted")
            ELSE [r EXCEPT !.iteration = iteration, !.pc = "publish_to_sns"]

\* stop_daemon_tasks up to its first stop_task (drain.py:235, 40-51).
StopDaemonTasks(s) ==
    /\ inv[s].pc = "describe_tasks"
    /\ inv' = [inv EXCEPT ![s] =
                 AfterStopping(
                     [inv[s] EXCEPT
                        !.described = DaemonTasks(DescribeTasks(inv[s].task_arns),
                                                  inv[s].container_instance_arn),
                        !.log = @ \o << <<"describe_tasks", inv[s].cluster_arn>> >>,
                        !.pc = "stop_task"])]
    /\ UNCHANGED <<ec2InstanceId, status, taskOn, inflight, published, completed, stopCalls, deliveries>>

\* stop_task on the next daemon task (drain.py:54-58).
StopTask(s) ==
    /\ inv[s].pc = "stop_task"
    /\ LET task == Head(inv[s].described)
           ci == inv[s].container_instance_arn
       IN /\ taskOn' = [taskOn EXCEPT ![task.taskArn] =
                          IF @ = ci THEN None ELSE @]
          /\ stopCalls' = stopCalls \cup
                 {[task |-> task.taskArn, cluster |-> inv[s].cluster_arn,
                   container_instance_arn |-> ci]}
          /\ inv' = [inv EXCEPT ![s] =
                       AfterStopping(
                           [inv[s] EXCEPT
                              !.described = Tail(@),
                              !.log = @ \o << <<"stop_task", task.taskArn>> >>])]
    /\ UNCHANGED <<ec2InstanceId, status, inflight, published, completed, deliveries>>

\* Mutant: the message is built anew and loses the hook name.
RepublishedMessage_Rebuilt(r) ==
    [LifecycleTransition |-> r.message["LifecycleTransition"],
     AutoScalingGroupName |-> r.message["AutoScalingGroupName"],
     EC2InstanceId |-> r.message["EC2InstanceId"],
     ContainerInstanceArn |-> r.container_instance_arn,
     ClusterId |-> r.cluster_arn,
     Iteration |-> r.iteration]

\* Mutant: the republished message also reports how many tasks were listed.
RepublishedMessage_WithTaskCount(r) ==
    Update(r.message,
           [ContainerInstanceArn |-> r.container_instance_arn,
            ClusterId |-> r.cluster_arn,
            Iteration |-> r.iteration,
            RunningTasks |-> Len(r.task_arns)])

\* The message handler republishes (drain.py:244-249).
RepublishedMessage(r) ==
    Update(r.message,
           [ContainerInstanceArn |-> r.container_instance_arn,
            ClusterId |-> r.cluster_arn,
            Iteration |-> r.iteration])

\* The subject of the republished message (drain.py:250-251).
Subject(container_instance_arn) ==
    <<"Draining instance ", ShortArn(container_instance_arn)>>

\* The topic handler publishes to (drain.py:214, 252).
PublishTopic(r) == r.topic_arn

\* publish_to_sns after the pause (drain.py:242-253, 169-183).
PublishToSns(s) ==
    /\ inv[s].pc = "publish_to_sns"
    /\ LET message == RepublishedMessage(inv[s])
           event == SnsEvent(PublishTopic(inv[s]), message,
                             Subject(inv[s].container_instance_arn))
       IN /\ inflight' = inflight \cup {event}
          /\ published' = published \cup {[trigger |-> inv[s].event, event |-> event]}
          /\ inv' = [inv EXCEPT ![s] =
                       Returned([inv[s] EXCEPT
                                   !.message = message,
                                   !.log = @ \o << <<"publish", event.TopicArn>> >>],
                                "republished")]
    /\ UNCHANGED <<ec2InstanceId, status, taskOn, completed, stopCalls, deliveries>>

\* Mutant: hook name and instance id passed in each other's place.
LifecycleAction_SwappedArgs(r) ==
    [AutoScalingGroupName |-> r.message["AutoScalingGroupName"],
     LifecycleActionResult |-> "CONTINUE",
     LifecycleHookName |-> r.message["EC2InstanceId"],
     InstanceId |-> r.message["LifecycleHookName"]]

\* The complete_lifecycle_action call of continue_lifecycle (drain.py:159-163).
LifecycleAction(r) ==
    [AutoScalingGroupName |-> r.message["AutoScalingGroupName"],
     LifecycleActionResult |-> "CONTINUE",
     LifecycleHookName |-> r.message["LifecycleHookName"],
     InstanceId |-> r.message["EC2InstanceId"]]

\* An exception that leaves handler: the invocation fails.
Failed(r, api) ==
    [r EXCEPT !.pc = "failed", !.outcome = "raised",
              !.log = @ \o << <<api, "raised">> >>]

\* Mutant: no try/except around complete_lifecycle_action.
AfterContinue_NoCatch(r, ok) ==
    IF ok
    THEN Returned([r EXCEPT !.log = @ \o << <<"complete_lifecycle_action",
                                               r.message["EC2InstanceId"], "done">> >>],
                  "continued")
    ELSE Failed(r, "complete_lifecycle_action")

\* The try/except of continue_lifecycle (drain.py:158-166): done or caught, handler returns.
AfterContinue(r, ok) ==
    Returned([r EXCEPT !.log = @ \o << <<"complete_lifecycle_action",
                                           r.message["EC2InstanceId"],
                                           IF ok THEN "done" ELSE "caught">> >>],
             "continued")

(***************************************************************************)
(* continue_lifecycle (drain.py:257-259, 146-166): the call succeeds or    *)
(* raises; the exception is caught and printed, the handler returns.       *)
(* `completed` keeps the call with the container instance it was made for. *)
(***************************************************************************)
ContinueLifecycle(s) ==
    /\ inv[s].pc = "continue_lifecycle"
    /\ \E ok \in BOOLEAN :
          /\ completed' = completed \cup
                {[action |-> LifecycleAction(inv[s]), ok |-> ok,
                  container_instance_arn |-> inv[s].container_instance_arn]}
          /\ inv' = [inv EXCEPT ![s] = AfterContinue(inv[s], ok)]
    /\ UNCHANGED <<ec2InstanceId, status, taskOn, inflight, published, stopCalls, deliveries>>

(***************************************************************************)
(* The orchestrator: a running task ends (it finishes, or its service      *)
(* moves it off a draining instance), and the scheduler places a task on   *)
(* an instance that is not DRAINING.  list_tasks (drain.py:78-82) and the  *)
(* DRAINING status (drain.py:142-143) are the code's view of both.         *)
(***************************************************************************)
TaskExits(t) ==
    /\ taskOn[t] # None
    /\ taskOn' = [taskOn EXCEPT ![t] = None]
    /\ UNCHANGED <<ec2InstanceId, status, inflight, inv, published, completed, stopCalls, deliveries>>

PlaceTask(t, ci) ==
    /\ taskOn[t] = None
    /\ status[ci] # "DRAINING"
    /\ taskOn' = [taskOn EXCEPT ![t] = ci]
    /\ UNCHANGED <<ec2InstanceId, status, inflight, inv, published, completed, stopCalls, deliveries>>

\* The notifications that start a sequence: what autoscaling sends to the topic.
Notifications ==
    {LifecycleMessage(TERMINATING, "i-1"),
     LifecycleMessage(LAUNCHING, "i-1"),
     TestNotification}

Init ==
    /\ ec2InstanceId \in [ContainerInstanceArns -> EC2Ids]
    /\ status \in [ContainerInstanceArns -> {"ACTIVE", "DRAINING"}]
    /\ taskOn \in [Tasks -> ContainerInstanceArns \cup {None}]
    /\ \E m \in Notifications, topic \in Topics :
          inflight = {SnsEvent(topic, m, <<"Auto Scaling: Lifecycle action">>)}
    /\ inv = [s \in Slots |-> IdleInvocation]
    /\ published = {}
    /\ completed = {}
    /\ stopCalls = {}
    /\ deliveries = 0

Handler ==
    \E s \in Slots :
        \/ \E e \in inflight : HandlerStart(s, e)
        \/ GetEcsIds(s)
        \/ DrainInstance(s)
        \/ ListRunningTasks(s)
        \/ StopDaemonTasks(s)
        \/ StopTask(s)
        \/ PublishToSns(s)
        \/ ContinueLifecycle(s)

Orchestrator ==
    \E t \in Tasks :
        \/ TaskExits(t)
        \/ \E ci \in ContainerInstanceArns : PlaceTask(t, ci)

Next == Handler \/ Orchestrator

Spec == Init /\ [][Next]_vars

(***************************************************************************)
(* The same handler under at-least-once delivery.  A run starts from the   *)
(* first termination notification of i-1, or from a republished message    *)
(* late in a sequence (Iteration 49 or 50: the instance was resolved and   *)
(* set to DRAINING by the first pass), so that duplicates meet the search, *)
(* the republish and the circuit breaker within MaxDeliveries deliveries.  *)
(***************************************************************************)
LateIterations == {MAXIMUM_ITERATIONS - 1, MAXIMUM_ITERATIONS}

InitAtLeastOnce ==
    /\ ec2InstanceId = [ci \in ContainerInstanceArns |-> IF ci = ArnA THEN "i-1" ELSE "i-2"]
    /\ taskOn \in [Tasks -> {ArnA, None}]
    /\ \/ /\ \E st \in {"ACTIVE", "DRAINING"} :
                status = [ci \in ContainerInstanceArns |->
                            IF ci = ArnA THEN st ELSE "DRAINING"]
          /\ inflight = {SnsEvent("topic-drain", LifecycleMessage(TERMINATING, "i-1"),
                                  <<"Auto Scaling: Lifecycle action">>)}
       \/ /\ status = [ci \in ContainerInstanceArns |-> "DRAINING"]
          /\ \E i \in LateIterations :
                inflight = {SnsEvent("topic-drain",
                                     Update(LifecycleMessage(TERMINATING, "i-1"),
                                            [ContainerInstanceArn |-> ArnA,
                                             ClusterId |-> ClusterX,
                                             Iteration |-> i]),
                                     Subject(ArnA))}
    /\ inv = [s \in Slots |-> IdleInvocation]
    /\ published = {}
    /\ completed = {}
    /\ stopCalls = {}
    /\ deliveries = 0

HandlerAtLeastOnce ==
    \E s \in Slots :
        \/ \E e \in inflight : HandlerStartAtLeastOnce(s, e)
        \/ GetEcsIds(s)
        \/ DrainInstance(s)
        \/ ListRunningTasks(s)
        \/ StopDaemonTasks(s)
        \/ StopTask(s)
        \/ PublishToSns(s)
        \/ ContinueLifecycle(s)

NextAtLeastOnce == HandlerAtLeastOnce \/ Orchestrator

SpecAtLeastOnce == InitAtLeastOnce /\ [][NextAtLeastOnce]_vars

(***************************************************************************)
(* A termination notification on one topic, with the scheduling the        *)
(* platform gives the handler: a message on the topic is eventually        *)
(* delivered and a started invocation runs on to its return (its only wait *)
(* is a sleep, drain.py:242), so a handler step that stays possible is     *)
(* eventually taken.  Nothing is assumed about the orchestrator: tasks     *)
(* need never exit.                                                        *)
(***************************************************************************)
InitLive ==
    /\ Init
    /\ \A e \in inflight :
          /\ e.TopicArn = "topic-drain"
          /\ IsLifecycleTransition(json_loads(e.Message))
          /\ IsTermination(json_loads(e.Message))

SpecLive == InitLive /\ [][Next]_vars /\ WF_vars(Handler)

(***************************************************************************)
(* Two instances, i-1 on ArnA and i-2 on ArnB, terminate at the same time: *)
(* each has one message on the topic, its first notification or a late     *)
(* republished one, and their passes interleave in the two slots.          *)
(* MaxPasses bounds the number of passes of a run.                         *)
(***************************************************************************)
DrainRequests(ec2, cluster_arn, container_instance_arn) ==
    {SnsEvent("topic-drain", LifecycleMessage(TERMINATING, ec2),
              <<"Auto Scaling: Lifecycle action">>)}
    \cup {SnsEvent("topic-drain",
                   Update(LifecycleMessage(TERMINATING, ec2),
                          [ContainerInstanceArn |-> container_instance_arn,
                           ClusterId |-> cluster_arn,
                           Iteration |-> i]),
                   Subject(container_instance_arn)) : i \in LateIterations}

InitTwo ==
    /\ ec2InstanceId = [ci \in ContainerInstanceArns |-> IF ci = ArnA THEN "i-1" ELSE "i-2"]
    /\ taskOn \in [Tasks -> ContainerInstanceArns \cup {None}]
    /\ \E ea \in DrainRequests("i-1", ClusterX, ArnA),
          eb \in DrainRequests("i-2", ClusterY, ArnB),
          st \in [ContainerInstanceArns -> {"ACTIVE", "DRAINING"}] :
          /\ "Iteration" \in DOMAIN json_loads(ea.Message) => st[ArnA] = "DRAINING"
          /\ "Iteration" \in DOMAIN json_loads(eb.Message) => st[ArnB] = "DRAINING"
          /\ status = st
          /\ inflight = {ea, eb}
    /\ inv = [s \in Slots |-> IdleInvocation]
    /\ published = {}
    /\ completed = {}
    /\ stopCalls = {}
    /\ deliveries = 0

HandlerStartBounded(s, e) == deliveries < MaxPasses /\ HandlerStart(s, e)

HandlerTwo ==
    \E s \in Slots :
        \/ \E e \in inflight : HandlerStartBounded(s, e)
        \/ GetEcsIds(s)
        \/ DrainInstance(s)
        \/ ListRunningTasks(s)
        \/ StopDaemonTasks(s)
        \/ StopTask(s)
        \/ PublishToSns(s)
        \/ ContinueLifecycle(s)

NextTwo == HandlerTwo \/ Orchestrator

SpecTwo == InitTwo /\ [][NextTwo]_vars

(***************************************************************************)
(* The same handler when calls to ECS and SNS may raise.  None of them is  *)
(* inside a try/except (drain.py:44-58, 80-81, 99-119, 142-143, 180-183),  *)
(* so the exception leaves handler and the invocation fails.  The cluster  *)
(* search may fail at any of its calls, after the ones before it.          *)
(***************************************************************************)
PendingCalls(r) ==
    CASE r.pc = "get_ecs_ids" -> get_ecs_ids(r.message["EC2InstanceId"]).calls
      [] r.pc = "drain_instance" -> << <<"update_container_instances_state">> >>
      [] r.pc = "list_running_tasks" -> << <<"list_tasks">> >>
      [] r.pc = "describe_tasks" -> << <<"describe_tasks">> >>
      [] r.pc = "stop_task" -> << <<"stop_task">> >>
      [] r.pc = "publish_to_sns" -> << <<"publish">> >>
      [] OTHER -> <<>>

\* Mutant: the exception is swallowed and the pass goes on to continue_lifecycle.
Raise_Swallowed(r, api) ==
    [r EXCEPT !.pc = "continue_lifecycle",
              !.log = @ \o << <<api, "raised">> >>]

\* The exception propagates out of handler (drain.py:186-259 has no except clause).
Raise(r, api) == Failed(r, api)

CallRaises(s) ==
    /\ \E i \in 1..Len(PendingCalls(inv[s])) :
          inv' = [inv EXCEPT ![s] =
                    Raise([inv[s] EXCEPT
                             !.log = @ \o SubSeq(PendingCalls(inv[s]), 1, i - 1)],
                          PendingCalls(inv[s])[i][1])]
    /\ UNCHANGED <<ec2InstanceId, status, taskOn, inflight, published, completed, stopCalls, deliveries>>

NextFailures == Next \/ \E s \in Slots : CallRaises(s)

SpecFailures == Init /\ [][NextFailures]_vars

(***************************************************************************)
(* Reading an invocation back: the message it was triggered by, and the    *)
(* calls in its log.                                                       *)
(***************************************************************************)
Started(s) == inv[s].pc # "idle"
Trigger(s) == json_loads(inv[s].event.Message)
Count(log, api) == Cardinality({i \in 1..Len(log) : log[i][1] = api})
CountOf(log, call) == Cardinality({i \in 1..Len(log) : log[i] = call})
TriggerOf(p) == json_loads(p.trigger.Message)
MessageOf(p) == json_loads(p.event.Message)
HasTerminationMarker(m) ==
    /\ "LifecycleTransition" \in DOMAIN m
    /\ Find(m["LifecycleTransition"], TERMINATING) >= 0

(***************************************************************************)
(* C1: an invocation whose message has no LifecycleTransition field, or    *)
(* one that is not a termination transition, makes no API call at all and  *)
(* publishes nothing: it has returned with an empty call log, and no       *)
(* publish, stop_task or lifecycle call exists that it triggered.          *)
(***************************************************************************)
C1_IgnoredMessageNoCalls ==
    \A s \in Slots :
        (Started(s) /\ ~HasTerminationMarker(Trigger(s))) =>
            /\ inv[s].pc = "returned"
            /\ inv[s].log = <<>>
            /\ \A p \in published : p.trigger # inv[s].event
            /\ inflight = {} /\ published = {} /\ completed = {} /\ stopCalls = {}

C1_Witness ==
    \E s \in Slots :
        /\ inv[s].pc = "returned"
        /\ "LifecycleTransition" \in DOMAIN Trigger(s)
        /\ Trigger(s)["LifecycleTransition"] = LAUNCHING
        /\ inv[s].log = <<>>

(***************************************************************************)
(* C2: whenever the lifecycle continue-signal has been sent for an         *)
(* instance, no task is running on the container instance it was sent for. *)
(***************************************************************************)
C2_ReleasedOnlyWhenVacated ==
    \A c \in completed : RunningOn(c.container_instance_arn) = {}

C2_Witness ==
    /\ completed # {}
    /\ stopCalls # {}
    /\ published # {}

(***************************************************************************)
(* C3: an invocation whose list_tasks returned the empty list sends the    *)
(* continue-signal exactly once, with result CONTINUE for the autoscaling  *)
(* group, hook and instance id of its message, and publishes nothing.      *)
(***************************************************************************)
C3_EmptyListContinuesOnce ==
    \A s \in Slots :
        (Started(s) /\ Count(inv[s].log, "list_tasks") > 0 /\ inv[s].task_arns = <<>>) =>
            /\ Count(inv[s].log, "publish") = 0
            /\ \A p \in published : p.trigger # inv[s].event
            /\ inv[s].pc \in {"continue_lifecycle", "returned"}
            /\ inv[s].pc = "returned" =>
                  /\ Count(inv[s].log, "complete_lifecycle_action") = 1
                  /\ \E c \in completed :
                        c.action = [AutoScalingGroupName |-> Trigger(s)["AutoScalingGroupName"],
                                    LifecycleActionResult |-> "CONTINUE",
                                    LifecycleHookName |-> Trigger(s)["LifecycleHookName"],
                                    InstanceId |-> Trigger(s)["EC2InstanceId"]]

\* A first notification, instance found, no running task: one continue, no publish.
C3_Witness ==
    \E s \in Slots :
        /\ inv[s].pc = "returned"
        /\ "ContainerInstanceArn" \notin DOMAIN Trigger(s)
        /\ Count(inv[s].log, "list_clusters") = 1
        /\ inv[s].task_arns = <<>>
        /\ Count(inv[s].log, "complete_lifecycle_action") = 1
        /\ published = {}

(***************************************************************************)
(* C4: circuit breaker.  An invocation that listed tasks and whose         *)
(* incremented Iteration exceeds 50 publishes nothing and sends no         *)
(* continue-signal; no published message carries an Iteration above 50.    *)
(***************************************************************************)
ReceivedIteration(m) ==
    IF "ContainerInstanceArn" \in DOMAIN m THEN m["Iteration"] ELSE 0

C4_CircuitBreaker ==
    /\ \A p \in published : MessageOf(p)["Iteration"] <= 50
    /\ \A s \in Slots :
          (/\ Started(s)
           /\ HasTerminationMarker(Trigger(s))
           /\ inv[s].task_arns # <<>>
           /\ ReceivedIteration(Trigger(s)) + 1 > 50) =>
              /\ Count(inv[s].log, "publish") = 0
              /\ Count(inv[s].log, "complete_lifecycle_action") = 0
              /\ \A p \in published : p.trigger # inv[s].event
              /\ inv[s].pc \in {"describe_tasks", "stop_task", "returned"}

\* A message with Iteration 50 met running tasks and the sequence ended there.
C4_Witness ==
    \E s \in Slots :
        /\ inv[s].pc = "returned"
        /\ inv[s].outcome = "aborted"
        /\ Trigger(s)["Iteration"] = 50
        /\ inv[s].task_arns # <<>>
        /\ inflight = {}
        /\ completed = {}

(***************************************************************************)
(* C5: every republished message carries the Iteration of the message that *)
(* triggered it plus 1, the first republish carries 1, and the Iterations  *)
(* published in one sequence are 1, 2, ..., n without gap or repetition.   *)
(***************************************************************************)
C5_IterationChain ==
    /\ \A p \in published :
          /\ "ContainerInstanceArn" \notin DOMAIN TriggerOf(p) =>
                MessageOf(p)["Iteration"] = 1
          /\ "ContainerInstanceArn" \in DOMAIN TriggerOf(p) =>
                MessageOf(p)["Iteration"] = TriggerOf(p)["Iteration"] + 1
    /\ {MessageOf(p)["Iteration"] : p \in published} = 1..Cardinality(published)

C5_Witness ==
    \E p \in published :
        /\ "ContainerInstanceArn" \in DOMAIN TriggerOf(p)
        /\ TriggerOf(p)["Iteration"] = 2
        /\ MessageOf(p)["Iteration"] = 3

(***************************************************************************)
(* C6: once an invocation that listed tasks is through with stopping,      *)
(* stop_task was called exactly once for each listed task whose startedBy  *)
(* is the last '/'-segment of the container instance ARN, and never for    *)
(* any other task; before that, never more than once and never for a task  *)
(* that does not match.                                                    *)
(***************************************************************************)
Listed(s) == {inv[s].task_arns[i] : i \in 1..Len(inv[s].task_arns)}
NodeLocal(s) ==
    LET arn == inv[s].container_instance_arn
    IN {t \in Listed(s) : StartedBy(t) = arn[Len(arn)]}

C6_StopExactlyNodeLocal ==
    \A s \in Slots :
        (Started(s) /\ inv[s].task_arns # <<>>) =>
            \A t \in Tasks :
                /\ t \notin NodeLocal(s) => CountOf(inv[s].log, <<"stop_task", t>>) = 0
                /\ CountOf(inv[s].log, <<"stop_task", t>>) <= 1
                /\ (inv[s].pc \in {"publish_to_sns", "returned"} /\ t \in NodeLocal(s)) =>
                      CountOf(inv[s].log, <<"stop_task", t>>) = 1

\* Several tasks listed on the long-format instance, exactly one of them node-local.
C6_Witness ==
    \E s \in Slots :
        /\ inv[s].pc = "returned"
        /\ inv[s].container_instance_arn = ArnB
        /\ Len(inv[s].task_arns) >= 2
        /\ Count(inv[s].log, "stop_task") = 1
        /\ CountOf(inv[s].log, <<"stop_task", "t3">>) = 1

(***************************************************************************)
(* C7: an invocation whose message carries ContainerInstanceArn makes no   *)
(* cluster search; a republished message has the keys and values of the    *)
(* message received, except Iteration and, when the received message had   *)
(* none, the added ClusterId and ContainerInstanceArn; all republished     *)
(* messages carry the same identity; and the message goes to the topic the *)
(* triggering event came from.                                             *)
(***************************************************************************)
IdentityKeys == {"ClusterId", "ContainerInstanceArn"}

C7_IdentityResolvedOnce ==
    /\ \A s \in Slots :
          (Started(s) /\ "ContainerInstanceArn" \in DOMAIN Trigger(s)) =>
              /\ Count(inv[s].log, "list_clusters") = 0
              /\ Count(inv[s].log, "list_container_instances") = 0
              /\ Count(inv[s].log, "describe_container_instances") = 0
              /\ Count(inv[s].log, "update_container_instances_state") = 0
    /\ \A p \in published :
          /\ DOMAIN MessageOf(p) = DOMAIN TriggerOf(p) \cup IdentityKeys \cup {"Iteration"}
          /\ \A k \in DOMAIN TriggerOf(p) \ {"Iteration"} :
                MessageOf(p)[k] = TriggerOf(p)[k]
          /\ p.event.TopicArn = p.trigger.TopicArn
    /\ Cardinality({<<MessageOf(p)["ClusterId"], MessageOf(p)["ContainerInstanceArn"]>> :
                        p \in published}) <= 1

\* A later hop: the received message already carried the identity.
C7_Witness ==
    \E p \in published :
        /\ IdentityKeys \subseteq DOMAIN TriggerOf(p)
        /\ MessageOf(p)["Iteration"] = 2
        /\ MessageOf(p)["ContainerInstanceArn"] = ArnB

(***************************************************************************)
(* C8: an invocation that is at, or past, listing the tasks of its         *)
(* container instance finds that instance DRAINING, and if the invocation  *)
(* set the status itself it did so before it listed the tasks.             *)
(***************************************************************************)
FirstIndex(log, api) ==
    LET hits == {i \in 1..Len(log) : log[i][1] = api}
    IN IF hits = {} THEN 0 ELSE CHOOSE i \in hits : \A k \in hits : i <= k

AtTaskEvaluation(s) ==
    \/ inv[s].pc \in {"list_running_tasks", "describe_tasks", "stop_task",
                      "publish_to_sns", "continue_lifecycle"}
    \/ Started(s) /\ Count(inv[s].log, "list_tasks") > 0

Unregistered(ec2) == \A ci \in ContainerInstanceArns : ec2InstanceId[ci] # ec2

C10_NotFoundIsSilent ==
    \A s \in Slots :
        (/\ Started(s)
         /\ HasTerminationMarker(Trigger(s))
         /\ "ContainerInstanceArn" \notin DOMAIN Trigger(s)
         /\ Unregistered(Trigger(s)["EC2InstanceId"])) =>
            /\ inv[s].pc \in {"get_ecs_ids", "returned"}
            /\ \A i \in 1..Len(inv[s].log) :
                  inv[s].log[i][1] \in {"list_clusters", "list_container_instances",
                                        "describe_container_instances"}
            /\ published = {} /\ completed = {} /\ stopCalls = {}
            /\ inv[s].pc = "returned" => inflight = {}

\* The search went through every cluster and found nothing.
C10_Witness ==
    \E s \in Slots :
        /\ inv[s].pc = "returned"
        /\ inv[s].outcome = "not_found"
        /\ Count(inv[s].log, "list_container_instances") = Len(ClusterArns)

(***************************************************************************)
(* C9: under at-least-once delivery, duplicate and interleaved invocations *)
(* only repeat effects.  Invocations for the same event republish the same *)
(* message, the one a single delivery republishes (identity of i-1 filled  *)
(* in, Iteration one higher), so the distinct republished messages form    *)
(* one chain with one message per Iteration; stop_task only ever hits      *)
(* node-local tasks of the container instance; the instance is DRAINING    *)
(* whenever tasks are evaluated; and every lifecycle call is the same      *)
(* CONTINUE for the same hook, made with no task left on the instance.     *)
(***************************************************************************)
C9_DuplicatesRepeatEffects ==
    /\ \A p, q \in published :
          (\/ p.trigger = q.trigger
           \/ MessageOf(p)["Iteration"] = MessageOf(q)["Iteration"]) => p.event = q.event
    /\ \A p \in published :
          /\ p.event.TopicArn = p.trigger.TopicArn
          /\ MessageOf(p) = [k \in DOMAIN TriggerOf(p) \cup IdentityKeys \cup {"Iteration"} |->
                                IF k = "Iteration" THEN ReceivedIteration(TriggerOf(p)) + 1
                                ELSE IF k = "ClusterId" THEN ClusterX
                                ELSE IF k = "ContainerInstanceArn" THEN ArnA
                                ELSE TriggerOf(p)[k]]
    /\ \A c \in stopCalls :
          /\ ec2InstanceId[c.container_instance_arn] = "i-1"
          /\ StartedBy(c.task) = c.container_instance_arn[Len(c.container_instance_arn)]
    /\ \A s \in Slots :
          AtTaskEvaluation(s) => status[inv[s].container_instance_arn] = "DRAINING"
    /\ Cardinality({c.action : c \in completed}) <= 1
    /\ \A c \in completed :
          /\ c.action.LifecycleActionResult = "CONTINUE"
          /\ c.action.InstanceId = "i-1"
          /\ RunningOn(c.container_instance_arn) = {}

\* The same event was delivered twice; both invocations stopped t1 and republished.
C9_Witness ==
    \E s1, s2 \in Slots :
        /\ s1 # s2
        /\ inv[s1].pc = "returned" /\ inv[s2].pc = "returned"
        /\ inv[s1].event = inv[s2].event
        /\ inv[s1].outcome = "republished" /\ inv[s2].outcome = "republished"
        /\ CountOf(inv[s1].log, <<"stop_task", "t1">>) = 1
        /\ CountOf(inv[s2].log, <<"stop_task", "t1">>) = 1
        /\ Cardinality({p.event : p \in published}) = 1

(***************************************************************************)
(* C11: an invocation whose complete_lifecycle_action call raised has      *)
(* returned normally: the exception was caught, that call is the last one  *)
(* it made, it published nothing and no message is left in flight.         *)
(***************************************************************************)
LifecycleCallRaised(s) ==
    /\ Started(s)
    /\ \E i \in 1..Len(inv[s].log) :
          /\ inv[s].log[i][1] = "complete_lifecycle_action"
          /\ inv[s].log[i][Len(inv[s].log[i])] # "done"

C11_LifecycleFailureCaught ==
    \A s \in Slots :
        LifecycleCallRaised(s) =>
            /\ inv[s].pc = "returned"
            /\ inv[s].outcome = "continued"
            /\ inv[s].log[Len(inv[s].log)][1] = "complete_lifecycle_action"
            /\ Count(inv[s].log, "complete_lifecycle_action") = 1
            /\ Count(inv[s].log, "publish") = 0
            /\ \A p \in published : p.trigger # inv[s].event
            /\ inflight = {}

\* A republished message met an empty task list and the lifecycle call raised.
C11_Witness ==
    \E s \in Slots :
        /\ LifecycleCallRaised(s)
        /\ "ContainerInstanceArn" \in DOMAIN Trigger(s)
        /\ \E c \in completed : ~c.ok

(***************************************************************************)
(* C12: the only status the controller writes to a container instance is   *)
(* DRAINING, and a container instance that is DRAINING stays DRAINING.     *)
(***************************************************************************)
OnlyDrainingWritten ==
    \A s \in Slots :
        Started(s) =>
            \A i \in 1..Len(inv[s].log) :
                inv[s].log[i][1] = "update_container_instances_state" =>
                    /\ inv[s].log[i][3] = "DRAINING"
                    /\ status[inv[s].log[i][2]] = "DRAINING"

C12_NeverRevertedToPlaceable ==
    /\ []OnlyDrainingWritten
    /\ [][\A ci \in ContainerInstanceArns :
             /\ status[ci] = "DRAINING" => status'[ci] = "DRAINING"
             /\ status'[ci] # status[ci] => status'[ci] = "DRAINING"]_vars

\* An ACTIVE instance was set to DRAINING and its sequence went on to republish.
C12_Witness ==
    \E s \in Slots :
        /\ inv[s].pc = "returned"
        /\ inv[s].outcome = "republished"
        /\ Count(inv[s].log, "update_container_instances_state") = 1
        /\ status[inv[s].container_instance_arn] = "DRAINING"

(***************************************************************************)
(* C15: a returned pass for a termination message whose identity is known  *)
(* ended in exactly one of: continue-signal sent, message republished,     *)
(* circuit breaker abort.  No pass both sends the continue-signal and      *)
(* republishes, and a pass that called describe_tasks or stop_task never   *)
(* sends the continue-signal, also when it stopped every task it listed.   *)
(***************************************************************************)
Actionable(s) ==
    /\ Started(s)
    /\ HasTerminationMarker(Trigger(s))
    /\ inv[s].container_instance_arn # None

EndedByContinue(s) ==
    /\ Count(inv[s].log, "complete_lifecycle_action") = 1
    /\ Count(inv[s].log, "publish") = 0
    /\ inv[s].outcome = "continued"

EndedByRepublish(s) ==
    /\ Count(inv[s].log, "publish") = 1
    /\ Count(inv[s].log, "complete_lifecycle_action") = 0
    /\ inv[s].outcome = "republished"
    /\ \E p \in published : p.trigger = inv[s].event

EndedByAbort(s) ==
    /\ Count(inv[s].log, "publish") = 0
    /\ Count(inv[s].log, "complete_lifecycle_action") = 0
    /\ inv[s].outcome = "aborted"

C15_ExclusiveOutcome ==
    \A s \in Slots :
        Actionable(s) =>
            /\ inv[s].pc = "returned" =>
                  Cardinality({o \in {"continue", "republish", "abort"} :
                                  \/ o = "continue" /\ EndedByContinue(s)
                                  \/ o = "republish" /\ EndedByRepublish(s)
                                  \/ o = "abort" /\ EndedByAbort(s)}) = 1
            /\ ~(/\ Count(inv[s].log, "complete_lifecycle_action") > 0
                 /\ Count(inv[s].log, "publish") > 0)
            /\ (\/ Count(inv[s].log, "stop_task") > 0
                \/ Count(inv[s].log, "describe_tasks") > 0) =>
                  /\ Count(inv[s].log, "complete_lifecycle_action") = 0
                  /\ inv[s].pc # "continue_lifecycle"

\* A pass stopped every task it had listed, republished, and none of them runs any more.
C15_Witness ==
    \E s \in Slots :
        /\ Actionable(s)
        /\ inv[s].pc = "returned"
        /\ EndedByRepublish(s)
        /\ Listed(s) # {}
        /\ \A t \in Listed(s) : CountOf(inv[s].log, <<"stop_task", t>>) = 1
        /\ RunningOn(inv[s].container_instance_arn) = {}

(***************************************************************************)
(* C16: get_ecs_ids returns a (cluster, container instance) pair exactly   *)
(* when some cluster has a container instance reporting the EC2 id; the    *)
(* pair is the match in the first such cluster of the list_clusters order  *)
(* and no call is made after that cluster's; it asks for drain_instance    *)
(* exactly when the matched instance is not DRAINING; with no match it     *)
(* returns [None, None].  An invocation makes at most one                  *)
(* update_container_instances_state call, on the pair returned.            *)
(***************************************************************************)
Members(cluster_arn) ==
    {ListContainerInstances(cluster_arn)[j] : j \in 1..Len(ListContainerInstances(cluster_arn))}

HasMatch(k, ec2) == \E ci \in Members(ClusterArns[k]) : ec2InstanceId[ci] = ec2

CorrectResolution(ec2, found) ==
    IF \E k \in 1..Len(ClusterArns) : HasMatch(k, ec2)
    THEN \E k \in 1..Len(ClusterArns) :
            /\ HasMatch(k, ec2)
            /\ \A before \in 1..(k - 1) : ~HasMatch(before, ec2)
            /\ found.cluster_arn = ClusterArns[k]
            /\ found.container_instance_arn \in Members(ClusterArns[k])
            /\ ec2InstanceId[found.container_instance_arn] = ec2
            /\ found.drain = (status[found.container_instance_arn] # "DRAINING")
            /\ found.calls[Len(found.calls)] =
                   <<"describe_container_instances", ClusterArns[k]>>
            /\ \A i \in 1..Len(found.calls) :
                  \A after \in (k + 1)..Len(ClusterArns) :
                      Len(found.calls[i]) = 2 => found.calls[i][2] # ClusterArns[after]
    ELSE /\ found.cluster_arn = None
         /\ found.container_instance_arn = None
         /\ ~found.drain

Running(s) == inv[s].pc \notin {"idle", "returned"}
AtRest == inflight = {} /\ \A s \in Slots : ~Running(s)

C17_SequenceTerminates ==
    /\ deliveries <= MAXIMUM_ITERATIONS + 1
    /\ Cardinality(published) <= MAXIMUM_ITERATIONS
    /\ deliveries <= Cardinality(published) + 1
    /\ Cardinality(inflight) + Cardinality({s \in Slots : Running(s)}) <= 1
    /\ AtRest \/ ENABLED Handler
    /\ AtRest =>
          /\ deliveries = Cardinality(published) + 1
          /\ \E s \in Slots :
                /\ inv[s].pc = "returned"
                /\ \A p \in published : p.trigger # inv[s].event
                /\ HasTerminationMarker(Trigger(s)) =>
                      inv[s].outcome \in {"continued", "aborted", "not_found"}

\* The longest sequence: 50 republishes, the 51st pass found no task and sent the signal.
C17_Witness ==
    /\ AtRest
    /\ deliveries = MAXIMUM_ITERATIONS + 1
    /\ Cardinality(published) = MAXIMUM_ITERATIONS
    /\ \E s \in Slots : inv[s].outcome = "continued" /\ Trigger(s)["Iteration"] = 50

(***************************************************************************)
(* C19: every stop_task and every complete_lifecycle_action is issued in a *)
(* state where the container instance of the sequence is already DRAINING  *)
(* (it was seen DRAINING or set to DRAINING by an earlier step), and it is *)
(* still DRAINING afterwards.  In the pass that searched the clusters the  *)
(* describe_container_instances call, and the status write if there was    *)
(* one, come before the first stop_task or complete_lifecycle_action; any  *)
(* other pass was triggered by a message an earlier pass republished.      *)
(***************************************************************************)
ReleaseCalls(log) ==
    {i \in 1..Len(log) : log[i][1] \in {"stop_task", "complete_lifecycle_action"}}

DrainingSeenBefore(s) ==
    IF Count(inv[s].log, "list_clusters") > 0
    THEN \A i \in ReleaseCalls(inv[s].log) :
            /\ \E k \in 1..(i - 1) :
                  inv[s].log[k] = <<"describe_container_instances", inv[s].cluster_arn>>
            /\ \A k \in 1..Len(inv[s].log) :
                  inv[s].log[k][1] = "update_container_instances_state" => k < i
    ELSE \E p \in published : p.event = inv[s].event

C19_DrainingPrecedesRelease ==
    /\ [](/\ \A c \in stopCalls \cup completed :
                status[c.container_instance_arn] = "DRAINING"
          /\ \A s \in Slots :
                (Started(s) /\ ReleaseCalls(inv[s].log) # {}) => DrainingSeenBefore(s))
    /\ [][\A c \in (stopCalls' \ stopCalls) \cup (completed' \ completed) :
             status[c.container_instance_arn] = "DRAINING"]_vars

\* An ACTIVE instance was set to DRAINING, then a daemon task on it was stopped.
C19_Witness ==
    \E s \in Slots :
        /\ Count(inv[s].log, "update_container_instances_state") = 1
        /\ Count(inv[s].log, "stop_task") >= 1
        /\ stopCalls # {}
        /\ inv[s].pc = "returned"

(***************************************************************************)
(* C14: when a call other than complete_lifecycle_action raises, the       *)
(* invocation fails there: the raising call is the last one it made, it    *)
(* sends no continue-signal and republishes nothing, so nothing is left in *)
(* flight; what it did before the failing call stays done.                 *)
(***************************************************************************)
RaisedCalls(log) == {i \in 1..Len(log) : log[i][Len(log[i])] = "raised"}

C14_FailurePropagates ==
    \A s \in Slots :
        /\ (Started(s) /\ RaisedCalls(inv[s].log) # {}) =>
              /\ inv[s].pc = "failed"
              /\ RaisedCalls(inv[s].log) = {Len(inv[s].log)}
              /\ inv[s].log[Len(inv[s].log)][1] \in
                    {"list_clusters", "list_container_instances",
                     "describe_container_instances",
                     "update_container_instances_state", "list_tasks",
                     "describe_tasks", "stop_task", "publish"}
              /\ Count(inv[s].log, "complete_lifecycle_action") = 0
              /\ \A p \in published : p.trigger # inv[s].event
              /\ inflight = {}
              /\ \A i \in 1..Len(inv[s].log) :
                    inv[s].log[i][1] = "stop_task" /\ i < Len(inv[s].log) =>
                        \E c \in stopCalls : c.task = inv[s].log[i][2]
        /\ inv[s].pc = "failed" => RaisedCalls(inv[s].log) # {}

\* publish raised in a pass that had set the instance to DRAINING and stopped a task.
C14_Witness ==
    \E s \in Slots :
        /\ inv[s].pc = "failed"
        /\ inv[s].log[Len(inv[s].log)] = <<"publish", "raised">>
        /\ Count(inv[s].log, "stop_task") >= 1
        /\ Count(inv[s].log, "update_container_instances_state") = 1
        /\ completed = {}

(***************************************************************************)
(* C13: with sequences for two instances interleaved, a pass for one       *)
(* instance names only that instance's container instance, tasks and       *)
(* lifecycle action in its calls and in what it republishes; a step of the *)
(* pass changes no status but its own instance's, stops no task that is    *)
(* not on its own instance and leaves the other invocation alone; and what *)
(* it lists, hence whether it continues or goes on draining, is given by   *)
(* the tasks on its own instance alone.                                    *)
(***************************************************************************)
Own(s) == CHOOSE ci \in ContainerInstanceArns : ec2InstanceId[ci] = Trigger(s)["EC2InstanceId"]

OwnCallsOnly(s) ==
    /\ inv[s].container_instance_arn \in {None, Own(s)}
    /\ \A i \in 1..Len(inv[s].log) :
          LET call == inv[s].log[i]
          IN /\ call[1] \in {"update_container_instances_state", "list_tasks"} =>
                   call[2] = Own(s)
             /\ call[1] = "stop_task" =>
                   StartedBy(call[2]) = Own(s)[Len(Own(s))]
             /\ call[1] = "complete_lifecycle_action" =>
                   call[2] = Trigger(s)["EC2InstanceId"]
    /\ \A p \in published :
          p.trigger = inv[s].event =>
              /\ MessageOf(p)["EC2InstanceId"] = Trigger(s)["EC2InstanceId"]
              /\ MessageOf(p)["ContainerInstanceArn"] = Own(s)

OwnEffectsOnly(s) ==
    /\ \A k \in Slots \ {s} : inv'[k] = inv[k]
    /\ \A ci \in ContainerInstanceArns : status'[ci] # status[ci] => ci = Own(s)
    /\ \A t \in Tasks : taskOn'[t] # taskOn[t] => taskOn[t] = Own(s) /\ taskOn'[t] = None
    /\ \A c \in (stopCalls' \ stopCalls) \cup (completed' \ completed) :
          c.container_instance_arn = Own(s)
    /\ \A c \in completed' \ completed :
          c.action.InstanceId = Trigger(s)["EC2InstanceId"]
    /\ inv[s].pc = "list_running_tasks" =>
          /\ inv'[s].task_arns = AsList({t \in Tasks : taskOn[t] = Own(s)})
          /\ (inv'[s].pc = "continue_lifecycle") = ({t \in Tasks : taskOn[t] = Own(s)} = {})

C13_SequencesIndependent ==
    /\ [](\A s \in Slots : Started(s) => OwnCallsOnly(s))
    /\ [][\A s \in Slots :
             (Running(s) /\ inv'[s] # inv[s]) => OwnEffectsOnly(s)]_vars

\* Both sequences have a pass under way at once; one continued while the other's
\* instance still ran tasks and republished.
C13_Witness ==
    \E s, k \in Slots :
        /\ Started(s) /\ Started(k)
        /\ Own(s) = ArnA /\ Own(k) = ArnB
        /\ inv[s].outcome = "continued"
        /\ inv[k].outcome = "republished"
        /\ Count(inv[k].log, "stop_task") >= 1
        /\ RunningOn(ArnB) # {}
        /\ \E p \in published : p.trigger = inv[k].event

(***************************************************************************)
(* C18: under SpecLive, whenever a pass for a registered instance is about *)
(* to start or has not listed the tasks yet, and from then on no task runs *)
(* on that instance, the continue-signal for the instance is eventually    *)
(* sent.                                                                   *)
(***************************************************************************)
TargetOf(m) ==
    IF "ContainerInstanceArn" \in DOMAIN m
    THEN m["ContainerInstanceArn"]
    ELSE IF \E k \in 1..Len(ClusterArns) : HasMatch(k, m["EC2InstanceId"])
    THEN LET k == CHOOSE k \in 1..Len(ClusterArns) :
                     /\ HasMatch(k, m["EC2InstanceId"])
                     /\ \A before \in 1..(k - 1) : ~HasMatch(before, m["EC2InstanceId"])
         IN CHOOSE ci \in Members(ClusterArns[k]) : ec2InstanceId[ci] = m["EC2InstanceId"]
    ELSE None

PassPending(ci) ==
    \/ \E e \in inflight :
          /\ HasTerminationMarker(json_loads(e.Message))
          /\ TargetOf(json_loads(e.Message)) = ci
    \/ \E s \in Slots :
          /\ inv[s].pc \in {"get_ecs_ids", "drain_instance", "list_running_tasks"}
          /\ TargetOf(Trigger(s)) = ci

Vacated(ci) == \A t \in Tasks : taskOn[t] # ci

ContinueSent(ci) == \E c \in completed : c.container_instance_arn = ci

C18_VacatedEventuallyContinues ==
    \A ci \in ContainerInstanceArns :
        [](PassPending(ci) /\ []Vacated(ci) => <>ContinueSent(ci))

\* A sequence that republished at least once found its instance vacated and sent the signal.
C18_Witness ==
    \E s \in Slots :
        /\ Started(s)
        /\ "Iteration" \in DOMAIN Trigger(s)
        /\ Trigger(s)["Iteration"] >= 2
        /\ inv[s].outcome = "continued"
        /\ Vacated(inv[s].container_instance_arn)
        /\ ContinueSent(inv[s].container_instance_arn)
        /\ stopCalls # {}

====
